---- MODULE Spec2Model ----
(***************************************************************************)
(* axum-enum-response: the EnumIntoResponse derive macro (src/src/lib.rs). *)
(* The macro expansion is modelled as a state machine over the variants of *)
(* the derive input, followed by the behaviour of the code it generates    *)
(* (the IntoResponse impl, the From<Enum> for Response impl and the        *)
(* From<ty> impls) on values of the enum.                                  *)
(***************************************************************************)
EXTENDS Integers, Sequences, FiniteSets, TLC

VARIABLES input, pc, idx, match_branches, impls, result, value, response

vars == <<input, pc, idx, match_branches, impls, result, value, response>>

\* ------------------------------------------------------------------ bounds
\* Largest number of variants of a derive input.
MaxVariants == 2

\* ------------------------------------------------------- Option and Result
None == [some |-> FALSE]
Some(x) == [some |-> TRUE, v |-> x]
Ok(x) == [ok |-> TRUE, v |-> x]
Err(e) == [ok |-> FALSE, err |-> e]

\* A syn::Error: the message the code gives, the kind the specification
\* files it under, and the variant its span lies in ("" until the closure
\* that knows the variant attaches it).
Error(kind, msg) == [kind |-> kind, msg |-> msg, span |-> ""]

\* ------------------------------------------------------------------ tokens
LitStr(s) == [k |-> "str", v |-> s]
Ident(s) == [k |-> "ident", v |-> s]
LitInt(s) == [k |-> "int", v |-> s]
Arrow == [k |-> "punct", v |-> "=>"]

\* syn::Attribute: its path (a sequence of segments) and its Meta.
List(name, toks) == [path |-> <<name>>, meta |-> "List", tokens |-> toks]
Path(segs) == [path |-> segs, meta |-> "Path", tokens |-> <<>>]
NameValue(name, tok) == [path |-> <<name>>, meta |-> "NameValue", tokens |-> <<tok>>]

\* syn::Path::get_ident: the single segment of a one-segment path.
get_ident(path) == IF Len(path) = 1 THEN Some(path[1]) ELSE None

\* syn::Meta::require_list as used at the two call sites of parse_attributes.
require_list(attribute) ==
    IF attribute.meta = "List"
    THEN Ok(attribute.tokens)
    ELSE Err(Error("InvalidAttributeGrammar", "expected attribute arguments in parentheses"))

\* ------------------------------------------------- impl Parse for BodyAttribute
\* LitStr [=> LitStr], and parse_args rejects tokens left over after it.
BodyAttribute_parse(tokens) ==
    IF Len(tokens) = 0 \/ tokens[1].k # "str"
    THEN Err(Error("InvalidAttributeGrammar", "expected string literal"))
    ELSE IF Len(tokens) >= 2 /\ tokens[2] = Arrow
    THEN IF Len(tokens) < 3 \/ tokens[3].k # "str"
         THEN Err(Error("InvalidAttributeGrammar", "expected string literal"))
         ELSE IF Len(tokens) > 3
         THEN Err(Error("InvalidAttributeGrammar", "unexpected token"))
         ELSE Ok([key |-> Some(tokens[1].v), value |-> tokens[3].v])
    ELSE IF Len(tokens) > 1
    THEN Err(Error("InvalidAttributeGrammar", "unexpected token"))
    ELSE Ok([key |-> None, value |-> tokens[1].v])

\* ------------------------------------------------------------ StatusCode
\* The associated constants of http::StatusCode the crate's documentation
\* and tests use.
StatusCode ==
    [s \in {"OK", "BAD_REQUEST", "UNAUTHORIZED", "FORBIDDEN", "INTERNAL_SERVER_ERROR"} |->
        CASE s = "OK" -> 200
          [] s = "BAD_REQUEST" -> 400
          [] s = "UNAUTHORIZED" -> 401
          [] s = "FORBIDDEN" -> 403
          [] s = "INTERNAL_SERVER_ERROR" -> 500]

\* ::axum::http::StatusCode::#status_code names an associated constant.
Resolves(status_code) ==
    /\ Len(status_code) = 1
    /\ status_code[1].k = "ident"
    /\ status_code[1].v \in DOMAIN StatusCode

\* ------------------------------------------------------- parse_attributes
\* One arm of the match on the attribute's name: the accumulator
\* [status_code, body] after the attribute, or the error it raises.
variant_attribute_Resolving(acc, attribute) ==
    LET iden == get_ident(attribute.path) IN
    IF ~iden.some
    THEN Err(Error("UnnamedAttributeError", "You must name attributes"))
    ELSE IF iden.v = "status_code"
    THEN LET l == require_list(attribute) IN
         IF ~l.ok THEN l
         ELSE IF ~Resolves(l.v)
         THEN Err(Error("InvalidAttributeGrammar", "unknown status code"))
         ELSE Ok([acc EXCEPT !.status_code = Some(l.v)])
    ELSE IF iden.v = "body"
    THEN LET l == require_list(attribute) IN
         IF ~l.ok THEN l
         ELSE LET b == BodyAttribute_parse(l.v) IN
              IF b.ok THEN Ok([acc EXCEPT !.body = Some(b.v)]) ELSE b
    ELSE Ok(acc)

variant_attribute(acc, attribute) ==
    LET iden == get_ident(attribute.path) IN
    IF ~iden.some
    THEN Err(Error("UnnamedAttributeError", "You must name attributes"))
    ELSE IF iden.v = "status_code"
    THEN LET l == require_list(attribute) IN
         IF l.ok THEN Ok([acc EXCEPT !.status_code = Some(l.v)]) ELSE l
    ELSE IF iden.v = "body"
    THEN LET l == require_list(attribute) IN
         IF ~l.ok THEN l
         ELSE LET b == BodyAttribute_parse(l.v) IN
              IF b.ok THEN Ok([acc EXCEPT !.body = Some(b.v)]) ELSE b
    ELSE Ok(acc)

RECURSIVE variant_attribute_loop(_, _, _)
variant_attribute_loop(acc, attributes, i) ==
    IF i > Len(attributes)
    THEN Ok(acc)
    ELSE LET r == variant_attribute(acc, attributes[i]) IN
         IF r.ok THEN variant_attribute_loop(r.v, attributes, i + 1) ELSE r

\* The check after the loop: a status_code must have been seen.
require_status_code_Default(acc) ==
    Ok([acc EXCEPT !.status_code =
            IF acc.status_code.some THEN acc.status_code.v ELSE <<Ident("OK")>>])

require_status_code(acc) ==
    IF ~acc.status_code.some
    THEN Err(Error("MissingStatusCode", "'status_code' attribute must be specified"))
    ELSE Ok([acc EXCEPT !.status_code = acc.status_code.v])

parse_attributes(attributes) ==
    IF Len(attributes) = 0
    THEN Err(Error("MissingStatusCode", "You must specify the 'status_code' attribute"))
    ELSE LET r == variant_attribute_loop([status_code |-> None, body |-> None], attributes, 1) IN
         IF r.ok THEN require_status_code(r.v) ELSE r

\* ------------------------------------------------- parse_field_attributes
field_attribute(acc, attribute, ty) ==
    LET iden == get_ident(attribute.path) IN
    IF ~iden.some
    THEN Err(Error("UnnamedAttributeError", "You must name attributes"))
    ELSE IF iden.v = "key"
    THEN IF attribute.meta = "List"
         THEN Ok([acc EXCEPT !.key = Some(attribute.tokens)])
         ELSE Err(Error("InvalidAttributeGrammar", "'key' attribute value must be a string"))
    ELSE IF iden.v = "from"
    THEN Ok([acc EXCEPT !.from_ty = Some(ty)])
    ELSE Ok(acc)

RECURSIVE field_attribute_loop(_, _, _, _)
field_attribute_loop(acc, attributes, i, ty) ==
    IF i > Len(attributes)
    THEN Ok(Some(acc))
    ELSE LET r == field_attribute(acc, attributes[i], ty) IN
         IF r.ok THEN field_attribute_loop(r.v, attributes, i + 1, ty) ELSE r

\* The checks on the number and the style of the fields.
field_cardinality_AnyCount(fields) ==
    IF fields[1].named
    THEN Err(Error("FieldCardinalityError", "EnumIntoResponse only supports unnamed fields."))
    ELSE Ok(fields[1])

field_cardinality(fields) ==
    IF fields[1].named
    THEN Err(Error("FieldCardinalityError", "EnumIntoResponse only supports unnamed fields."))
    ELSE IF Len(fields) >= 2
    THEN Err(Error("FieldCardinalityError", "EnumIntoResponse only supports up to one unnamed field."))
    ELSE Ok(fields[1])

parse_field_attributes(fields) ==
    IF Len(fields) = 0
    THEN Ok(None)
    ELSE LET f == field_cardinality(fields) IN
         IF ~f.ok THEN f
         ELSE field_attribute_loop([key |-> None, from_ty |-> None], f.v.attrs, 1, f.v.ty)

\* ------------------------------------------- the closure over the variants
\* The match arm of a variant with a field.
field_branch(fa) ==
    IF fa.from_ty.some
    THEN IF fa.key.some
         THEN [kind |-> "Map", key |-> fa.key.v, expr |-> "v.to_string()", lit |-> ""]
         ELSE [kind |-> "Map", key |-> <<LitStr("error")>>, expr |-> "v.to_string()", lit |-> ""]
    ELSE IF fa.key.some
    THEN [kind |-> "Map", key |-> fa.key.v, expr |-> "v", lit |-> ""]
    ELSE [kind |-> "Json", key |-> <<>>, expr |-> "v", lit |-> ""]

body_branch_MessageKey(body) ==
    LET key == IF body.key.some THEN body.key.v ELSE "message" IN
    [kind |-> "Map", key |-> <<LitStr(key)>>, expr |-> "lit", lit |-> body.value]

\* The match arm of a fieldless variant with a body attribute.
body_branch(body) ==
    LET key == IF body.key.some THEN body.key.v ELSE "error" IN
    [kind |-> "Map", key |-> <<LitStr(key)>>, expr |-> "lit", lit |-> body.value]

\* The match arm of a fieldless variant without a body attribute.
empty_branch == [kind |-> "None", key |-> <<>>, expr |-> "", lit |-> ""]

match_branch_BodyFirst(ident, status_code, body, field_attributes) ==
    [ident |-> ident,
     binds |-> field_attributes.some,
     status_code |-> status_code,
     body |-> IF body.some THEN body_branch(body.v)
              ELSE IF field_attributes.some THEN field_branch(field_attributes.v)
              ELSE empty_branch]

match_branch_FixedStatus(ident, status_code, body, field_attributes) ==
    [ident |-> ident,
     binds |-> field_attributes.some,
     status_code |-> <<Ident("INTERNAL_SERVER_ERROR")>>,
     body |-> IF field_attributes.some THEN field_branch(field_attributes.v)
              ELSE IF body.some THEN body_branch(body.v)
              ELSE empty_branch]

\* let match_branches = if let Some(..) = &field_attributes {..} else if let
\* Some(..) = body {..} else {..}
match_branch(ident, status_code, body, field_attributes) ==
    [ident |-> ident,
     binds |-> field_attributes.some,
     status_code |-> status_code,
     body |-> IF field_attributes.some THEN field_branch(field_attributes.v)
              ELSE IF body.some THEN body_branch(body.v)
              ELSE empty_branch]

from_impl_OnlyUnkeyed(ident, field_attributes) ==
    IF field_attributes.some /\ field_attributes.v.from_ty.some /\ ~field_attributes.v.key.some
    THEN Some([ty |-> field_attributes.v.from_ty.v, ident |-> ident])
    ELSE None

\* The impl From<#ty> for #enum_name of a variant, if it gets one.
from_impl(ident, field_attributes) ==
    IF field_attributes.some /\ field_attributes.v.from_ty.some
    THEN Some([ty |-> field_attributes.v.from_ty.v, ident |-> ident])
    ELSE None

\* The closure mapped over data_enum.variants: the pair (match branch, impl)
\* of a variant, or the first error its fields or attributes raise.
variant_closure(variant) ==
    LET field_attributes == parse_field_attributes(variant.fields) IN
    IF ~field_attributes.ok
    THEN Err([field_attributes.err EXCEPT !.span = variant.ident])
    ELSE LET va == parse_attributes(variant.attrs) IN
         IF ~va.ok
         THEN Err([va.err EXCEPT !.span = variant.ident])
         ELSE Ok([branch |-> match_branch(variant.ident, va.v.status_code, va.v.body,
                                          field_attributes.v),
                  impl |-> from_impl(variant.ident, field_attributes.v)])

collect_step_KeepGoing(acc, item) ==
    IF item.ok
    THEN [acc EXCEPT !.match_branches = Append(@, item.v.branch),
                     !.impls = Append(@, item.v.impl),
                     !.idx = @ + 1]
    ELSE [acc EXCEPT !.result = Some(Err(item.err)), !.idx = @ + 1]

\* One step of .collect::<Result<(Vec<_>, Vec<_>)>>(): an Ok item is pushed
\* onto both vectors, the first Err item ends the iteration and drops them.
collect_step(acc, item) ==
    IF item.ok
    THEN [acc EXCEPT !.match_branches = Append(@, item.v.branch),
                     !.impls = Append(@, item.v.impl),
                     !.idx = @ + 1]
    ELSE [acc EXCEPT !.match_branches = <<>>, !.impls = <<>>,
                     !.result = Some(Err(item.err)), !.pc = "done"]

\* #( #impls )*: an Option<TokenStream> that is None expands to nothing.
RECURSIVE flatten(_)
flatten(s) ==
    IF Len(s) = 0 THEN <<>>
    ELSE IF Head(s).some THEN <<Head(s).v>> \o flatten(Tail(s))
    ELSE flatten(Tail(s))

\* let output = quote! { .. }
output(branches, is) == [match_branches |-> branches, impls |-> flatten(is)]

\* impl_enum_into_response as a function of the whole input.
RECURSIVE collect(_, _)
collect(acc, variants) ==
    IF acc.pc = "done" THEN acc.result.v
    ELSE IF acc.idx > Len(variants) THEN Ok(output(acc.match_branches, acc.impls))
    ELSE collect(collect_step(acc, variant_closure(variants[acc.idx])), variants)

not_an_enum == Error("SchemaShapeError", "You may only use 'EnumIntoResponse' on enums")

impl_enum_into_response(in) ==
    IF ~in.is_enum
    THEN Err([not_an_enum EXCEPT !.span = in.ident])
    ELSE collect([pc |-> "map", idx |-> 1, match_branches |-> <<>>, impls |-> <<>>,
                  result |-> None], in.variants)

\* ------------------------------------------------ values and conversions
\* Values a field can hold: an i32 or a String; Unit stands for no field.
I32(n) == [ty |-> "i32", n |-> n, s |-> ""]
String(t) == [ty |-> "String", n |-> 0, s |-> t]
Unit == [ty |-> "()", n |-> 0, s |-> ""]

Values(ty) ==
    IF ty = "i32" THEN {I32(7), I32(1337)}
    ELSE IF ty = "String" THEN {String("boom")}
    ELSE {Unit}

Digit == <<"0", "1", "2", "3", "4", "5", "6", "7", "8", "9">>

\* Display for a non-negative integer: its decimal digits.
RECURSIVE Decimal(_)
Decimal(n) == IF n < 10 THEN Digit[n + 1] ELSE Decimal(n \div 10) \o Digit[(n % 10) + 1]

\* v.to_string(): Display of an i32 or of a String.
to_string(x) ==
    IF x.ty = "i32" THEN (IF x.n < 0 THEN "-" \o Decimal(0 - x.n) ELSE Decimal(x.n))
    ELSE x.s

\* A JSON string (the strings of the model need no escaping).
Quote(t) == "\"" \o t \o "\""

\* serde_json of a field value: a number for an i32, a string for a String.
Serialize(x) == IF x.ty = "i32" THEN to_string(x) ELSE Quote(x.s)

\* serde_json of a one-entry HashMap: integer keys are written as strings.
SerializeMap(key, val) == "{" \o Quote(key[1].v) \o ":" \o val \o "}"

\* --------------------------------------------------- the generated code
\* The arm of `match self` that a value takes.
arm_of(out, self) ==
    out.match_branches[CHOOSE j \in 1..Len(out.match_branches) :
                           out.match_branches[j].ident = self.variant]

\* The body expression of an arm, evaluated with v bound to the field value:
\* Some(::axum::Json(..).into_response()) or None.
arm_body(arm, v) ==
    IF arm.body.kind = "None" THEN None
    ELSE IF arm.body.kind = "Json" THEN Some(Serialize(v))
    ELSE IF arm.body.expr = "v.to_string()"
    THEN Some(SerializeMap(arm.body.key, Quote(to_string(v))))
    ELSE IF arm.body.expr = "v"
    THEN Some(SerializeMap(arm.body.key, Serialize(v)))
    ELSE Some(SerializeMap(arm.body.key, Quote(arm.body.lit)))

\* let (status_code, body) = match self { #( #match_branches )* };
rule(out, self) ==
    LET arm == arm_of(out, self) IN
    [status_code |-> StatusCode[arm.status_code[1].v], body |-> arm_body(arm, self.x)]

\* fn into_response(self): the status alone when the body is None.
into_response(out, self) ==
    LET r == rule(out, self) IN
    [rule |-> r,
     status |-> r.status_code,
     body |-> IF r.body.some THEN r.body.v ELSE ""]

\* fn from(value: #ty) -> Self { Self::#ident(value) }
from(impl, v) == [variant |-> impl.ident, x |-> v]

\* The attributes the derive registers, and the built-in `doc`.
HelperAttributes == {"status_code", "body", "key", "from", "doc"}

AttributesKnown(attributes) ==
    \A i \in 1..Len(attributes) :
        Len(attributes[i].path) = 1 /\ attributes[i].path[1] \in HelperAttributes

\* The host compiler accepts the expansion: every attribute is a registered
\* helper, every status code names a constant of StatusCode, every key is one
\* literal, and no two From impls are for the same type.
Compiles(in, out) ==
    /\ \A i \in 1..Len(in.variants) :
          /\ AttributesKnown(in.variants[i].attrs)
          /\ \A f \in 1..Len(in.variants[i].fields) :
                AttributesKnown(in.variants[i].fields[f].attrs)
    /\ \A j \in 1..Len(out.match_branches) :
          LET arm == out.match_branches[j] IN
          /\ Resolves(arm.status_code)
          /\ arm.body.kind = "Map" =>
                Len(arm.body.key) = 1 /\ arm.body.key[1].k \in {"str", "int"}
    /\ \A a, b \in 1..Len(out.impls) : out.impls[a].ty = out.impls[b].ty => a = b

\* ------------------------------------------------------------ the inputs
status_code(name) == List("status_code", <<Ident(name)>>)
body1(v) == List("body", <<LitStr(v)>>)
body2(k, v) == List("body", <<LitStr(k), Arrow, LitStr(v)>>)
message(m) == List("message", <<LitStr(m)>>)
key(k) == List("key", <<LitStr(k)>>)
doc == NameValue("doc", LitStr("a doc comment"))

Field(ty, attrs) == [named |-> FALSE, ty |-> ty, attrs |-> attrs]
NamedField(ty) == [named |-> TRUE, ty |-> ty, attrs |-> <<>>]

\* Attribute lists of fieldless variants.
UnitAttrs ==
    { <<>>,
      <<doc>>,
      <<status_code("UNAUTHORIZED")>>,
      <<status_code("FORBIDDEN"), body1("mew")>>,
      <<status_code("OK"), body2("hello", "world")>>,
      <<status_code("INTERNAL_SERVER_ERROR"), message("InternalServerError")>>,
      <<status_code("OK"), Path(<<"message">>)>>,
      <<status_code("NOT_A_STATUS")>>,
      <<Path(<<"status_code">>)>>,
      <<status_code("OK"), List("body", <<LitStr("mew"), LitStr("x")>>)>>,
      <<status_code("OK"), NameValue("body", LitStr("mew"))>>,
      <<Path(<<"serde", "rename">>), status_code("OK")>>,
      <<status_code("OK"), status_code("BAD_REQUEST")>>,
      <<doc, status_code("BAD_REQUEST"), doc>>,
      <<List("body", <<Arrow>>)>> }

\* Field lists of variants whose attributes are #[status_code(..)] alone.
FieldLists ==
    { <<NamedField("i32")>>,
      <<Field("i32", <<>>), Field("String", <<>>)>>,
      <<Field("i32", <<>>)>>,
      <<Field("i32", <<key("aga")>>)>>,
      <<Field("i32", <<Path(<<"from">>)>>)>>,
      <<Field("String", <<key("awwa"), Path(<<"from">>)>>)>>,
      <<Field("i32", <<List("key", <<LitInt("42")>>)>>)>>,
      <<Field("i32", <<Path(<<"key">>)>>)>>,
      <<Field("String", <<doc>>)>>,
      <<Field("i32", <<Path(<<"serde", "skip">>)>>)>> }

\* The declarations a variant is drawn from: its attributes and its fields.
VariantPool ==
    {[attrs |-> a, fields |-> <<>>] : a \in UnitAttrs}
    \cup {[attrs |-> <<status_code("INTERNAL_SERVER_ERROR")>>, fields |-> f] : f \in FieldLists}
    \cup { [attrs |-> <<status_code("FORBIDDEN"), body1("mew")>>,
            fields |-> <<Field("i32", <<key("aga")>>)>>],
           [attrs |-> <<status_code("OK"), body2("hello", "world")>>,
            fields |-> <<Field("i32", <<Path(<<"from">>)>>)>>],
           [attrs |-> <<>>, fields |-> <<Field("i32", <<>>), Field("String", <<>>)>>],
           [attrs |-> <<Path(<<"status_code">>)>>, fields |-> <<NamedField("i32")>>] }

\* The i-th variant's name.
VariantIdent(i) == "V" \o Decimal(i)

\* A derive input that is no enum.
StructInput == [is_enum |-> FALSE, ident |-> "S", variants |-> <<>>]

\* The enum whose i-th variant has the declaration d[i].
EnumInput(d) ==
    [is_enum |-> TRUE, ident |-> "E",
     variants |-> [i \in DOMAIN d |->
         [ident |-> VariantIdent(i), attrs |-> d[i].attrs, fields |-> d[i].fields]]]

\* ------------------------------------------------------ the state machine
Init ==
    /\ \/ input = StructInput
       \/ \E n \in 0..MaxVariants : \E d \in [1..n -> VariantPool] : input = EnumInput(d)
    /\ pc = "start"
    /\ idx = 1
    /\ match_branches = <<>>
    /\ impls = <<>>
    /\ result = None
    /\ value = None
    /\ response = None

\* let Data::Enum(data_enum) = input.data else { return Err(..) };
DataEnum ==
    /\ pc = "start"
    /\ IF input.is_enum
       THEN /\ pc' = "map"
            /\ UNCHANGED result
       ELSE /\ pc' = "done"
            /\ result' = Some(Err([not_an_enum EXCEPT !.span = input.ident]))
    /\ UNCHANGED <<input, idx, match_branches, impls, value, response>>

\* The closure on the next variant, and collect's step on what it returns.
MapVariant ==
    /\ pc = "map"
    /\ idx <= Len(input.variants)
    /\ LET acc == collect_step([pc |-> pc, idx |-> idx, match_branches |-> match_branches,
                                impls |-> impls, result |-> result],
                               variant_closure(input.variants[idx])) IN
       /\ pc' = acc.pc
       /\ idx' = acc.idx
       /\ match_branches' = acc.match_branches
       /\ impls' = acc.impls
       /\ result' = acc.result
    /\ UNCHANGED <<input, value, response>>

\* The iterator is exhausted: the output is quoted and returned.
Output ==
    /\ pc = "map"
    /\ idx > Len(input.variants)
    /\ pc' = "done"
    /\ result' = Some(Ok(output(match_branches, impls)))
    /\ UNCHANGED <<input, idx, match_branches, impls, value, response>>

\* The expansion is in a program that compiles.
Running == pc = "done" /\ result.v.ok /\ Compiles(input, result.v.v)

\* The program builds a value of the enum: Enum::Variant or Enum::Variant(x).
Construct ==
    /\ Running
    /\ ~value.some
    /\ \E i \in 1..Len(input.variants) :
          LET variant == input.variants[i] IN
          \E x \in (IF Len(variant.fields) = 0 THEN {Unit} ELSE Values(variant.fields[1].ty)) :
             value' = Some([variant |-> variant.ident, x |-> x, via |-> "variant", arg |-> x])
    /\ UNCHANGED <<input, pc, idx, match_branches, impls, result, response>>

\* The program calls a generated From<#ty>::from.
From ==
    /\ Running
    /\ ~value.some
    /\ \E j \in 1..Len(result.v.v.impls) :
          LET impl == result.v.v.impls[j] IN
          \E x \in Values(impl.ty) :
             LET self == from(impl, x) IN
             value' = Some([variant |-> self.variant, x |-> self.x, via |-> "from", arg |-> x])
    /\ UNCHANGED <<input, pc, idx, match_branches, impls, result, response>>

\* The program calls IntoResponse::into_response on the value.
IntoResponse ==
    /\ Running
    /\ value.some
    /\ ~response.some
    /\ response' = Some(into_response(result.v.v, value.v) @@ [entry |-> "into_response"])
    /\ UNCHANGED <<input, pc, idx, match_branches, impls, result, value>>

\* The program calls From<Enum> for Response, which calls into_response.
ResponseFrom ==
    /\ Running
    /\ value.some
    /\ ~response.some
    /\ response' = Some(into_response(result.v.v, value.v) @@ [entry |-> "from"])
    /\ UNCHANGED <<input, pc, idx, match_branches, impls, result, value>>

Next ==
    \/ DataEnum
    \/ MapVariant
    \/ Output
    \/ Construct
    \/ From
    \/ IntoResponse
    \/ ResponseFrom

Spec == Init /\ [][Next]_vars

\* ======================================================== the properties
Done == pc = "done"
Succeeded == Done /\ result.v.ok
Failed == Done /\ ~result.v.ok
N == Len(input.variants)

Named(attribute, name) == attribute.path = <<name>>
Annotated(attributes, name) == \E a \in 1..Len(attributes) : Named(attributes[a], name)

\* The last annotation of a name in a list (a later one replaces an earlier).
LastNamed(attributes, name) ==
    attributes[CHOOSE a \in 1..Len(attributes) :
                  /\ Named(attributes[a], name)
                  /\ \A b \in (a + 1)..Len(attributes) : ~Named(attributes[b], name)]

DeclaredStatus(variant) == LastNamed(variant.attrs, "status_code").tokens

VariantNamed(ident) == input.variants[CHOOSE i \in 1..N : input.variants[i].ident = ident]

ArmNamed(out, ident) ==
    out.match_branches[CHOOSE j \in 1..Len(out.match_branches) :
                           out.match_branches[j].ident = ident]

\* The JSON text of a one-entry object, as the tests of the crate write it.
Object(k, v) == "{\"" \o k \o "\":" \o v \o "}"
Text(t) == "\"" \o t \o "\""

\* C1: a variant without a field and without a message annotation converts
\* to its declared status and to the body its body annotation fixes: no body
\* without one, {"error": v} for Bare(v), {k: v} for KeyValue(k, v).
C1_Expected(variant) ==
    IF ~Annotated(variant.attrs, "body") THEN None
    ELSE LET t == LastNamed(variant.attrs, "body").tokens IN
         IF Len(t) = 1 THEN Some(Object("error", Text(t[1].v)))
         ELSE Some(Object(t[1].v, Text(t[3].v)))

C1_UnitVariantBody ==
    response.some =>
        LET variant == VariantNamed(value.v.variant) IN
        (Len(variant.fields) = 0 /\ ~Annotated(variant.attrs, "message")) =>
            /\ response.v.rule.status_code = StatusCode[DeclaredStatus(variant)[1].v]
            /\ response.v.status = response.v.rule.status_code
            /\ response.v.rule.body = C1_Expected(variant)

C1_Witness ==
    /\ response.some
    /\ Len(VariantNamed(value.v.variant).fields) = 0
    /\ response.v.status = 403
    /\ response.v.rule.body = Some("{\"error\":\"mew\"}")

\* C2: a variant with a field holding x converts to a body fixed by the
\* field's conversion-source marker and key alone, whatever body annotation
\* the variant also has.
C2_Expected(field, x) ==
    LET marked == Annotated(field.attrs, "from")
        keyed == Annotated(field.attrs, "key")
        k == LastNamed(field.attrs, "key").tokens[1].v
    IN  IF marked /\ keyed THEN Object(k, Text(to_string(x)))
        ELSE IF marked THEN Object("error", Text(to_string(x)))
        ELSE IF keyed THEN Object(k, Serialize(x))
        ELSE Serialize(x)

C2_FieldVariantBody ==
    response.some =>
        LET variant == VariantNamed(value.v.variant) IN
        Len(variant.fields) = 1 =>
            response.v.rule.body = Some(C2_Expected(variant.fields[1], value.v.x))

C2_Witness ==
    /\ response.some
    /\ Annotated(VariantNamed(value.v.variant).attrs, "body")
    /\ response.v.rule.body = Some("{\"aga\":1337}")

\* C3: a variant without a field and with a message annotation of literal
\* text m converts to its declared status and the body {"message": m}.
C3_MessageBody ==
    Succeeded =>
        \A i \in 1..N :
            LET variant == input.variants[i] IN
            ( /\ Len(variant.fields) = 0
              /\ Annotated(variant.attrs, "message")
              /\ LastNamed(variant.attrs, "message").meta = "List" ) =>
                LET r == rule(result.v.v, [variant |-> variant.ident, x |-> Unit]) IN
                /\ r.status_code = StatusCode[DeclaredStatus(variant)[1].v]
                /\ r.body = Some(Object("message",
                                        Text(LastNamed(variant.attrs, "message").tokens[1].v)))

\* The variants before the i-th raise no error.
EarlierValid(i) == \A j \in 1..(i - 1) : variant_closure(input.variants[j]).ok

\* C4 as stated: a variant without a status-code annotation makes the
\* pipeline end in a MissingStatusCode error, whatever else the schema holds.
C4_AlwaysMissingStatusCode ==
    Done =>
        \A i \in 1..N :
            ~Annotated(input.variants[i].attrs, "status_code") =>
                ~result.v.ok /\ result.v.err.kind = "MissingStatusCode"

\* Every annotation of the list is named, and every body annotation parses.
C4_OthersWellFormed(attributes) ==
    \A a \in 1..Len(attributes) :
        /\ Len(attributes[a].path) = 1
        /\ Named(attributes[a], "body") =>
              /\ attributes[a].meta = "List"
              /\ BodyAttribute_parse(attributes[a].tokens).ok

\* C4 amended: a variant without a status-code annotation makes the pipeline
\* end in an error; the error is MissingStatusCode, at that variant, when no
\* earlier variant is invalid and neither the variant's fields nor its other
\* annotations raise an error first.
C4_MissingStatusCode ==
    Done =>
        \A i \in 1..N :
            LET variant == input.variants[i] IN
            ~Annotated(variant.attrs, "status_code") =>
                /\ ~result.v.ok
                /\ ( /\ EarlierValid(i)
                     /\ parse_field_attributes(variant.fields).ok
                     /\ C4_OthersWellFormed(variant.attrs) ) =>
                        /\ result.v.err.kind = "MissingStatusCode"
                        /\ result.v.err.span = variant.ident

C4_Witness ==
    /\ Failed
    /\ N = 2
    /\ result.v.err.kind = "MissingStatusCode"
    /\ result.v.err.span = "V2"
    /\ Len(input.variants[2].attrs) > 0
    /\ variant_closure(input.variants[1]).ok

\* More than one positional field, or a named field.
C5_BadFields(variant) ==
    \/ Len(variant.fields) > 1
    \/ \E f \in 1..Len(variant.fields) : variant.fields[f].named

\* C5 as stated: a variant with more than one positional field or a named
\* field makes the pipeline end in a FieldCardinalityError, and a variant
\* with at most one positional field never raises that error.
C5_AlwaysFieldCardinality ==
    Done =>
        /\ \A i \in 1..N :
              C5_BadFields(input.variants[i]) =>
                  ~result.v.ok /\ result.v.err.kind = "FieldCardinalityError"
        /\ (~result.v.ok /\ result.v.err.kind = "FieldCardinalityError") =>
              C5_BadFields(VariantNamed(result.v.err.span))

\* C5 amended: such a variant makes the pipeline end in an error, which is
\* FieldCardinalityError at that variant when no earlier variant is invalid;
\* a variant with at most one positional field never raises that error.
C5_FieldCardinality ==
    Done =>
        /\ \A i \in 1..N :
              C5_BadFields(input.variants[i]) =>
                  /\ ~result.v.ok
                  /\ EarlierValid(i) =>
                        /\ result.v.err.kind = "FieldCardinalityError"
                        /\ result.v.err.span = input.variants[i].ident
        /\ (~result.v.ok /\ result.v.err.kind = "FieldCardinalityError") =>
              C5_BadFields(VariantNamed(result.v.err.span))

C5_Witness ==
    /\ Failed
    /\ N = 2
    /\ result.v.err.kind = "FieldCardinalityError"
    /\ result.v.err.span = "V2"
    /\ Len(input.variants[2].fields) = 2
    /\ ~input.variants[2].fields[1].named

\* The input with its variants in the order p.
Permuted(p) == [input EXCEPT !.variants = [i \in 1..N |-> input.variants[p[i]]]]

\* C6: for a valid schema, the status code of each variant's rule is the one
\* declared on that variant, in every order of the variants, and it is the
\* status of the response a value of the variant converts to.
C6_StatusOfOwnVariant ==
    /\ Succeeded =>
          \A p \in Permutations(1..N) :
              LET r == impl_enum_into_response(Permuted(p)) IN
              /\ r.ok
              /\ \A i \in 1..N :
                    LET variant == input.variants[i] IN
                    /\ ArmNamed(r.v, variant.ident).status_code = DeclaredStatus(variant)
                    /\ ArmNamed(result.v.v, variant.ident).status_code = DeclaredStatus(variant)
    /\ response.some =>
          response.v.status = StatusCode[DeclaredStatus(VariantNamed(value.v.variant))[1].v]

C6_Witness ==
    /\ response.some
    /\ N = 2
    /\ DeclaredStatus(input.variants[1]) # DeclaredStatus(input.variants[2])
    /\ value.v.variant = "V2"
    /\ response.v.status = 403

\* The variant has one field, marked as a conversion source.
C7_Marked(variant) ==
    Len(variant.fields) = 1 /\ Annotated(variant.fields[1].attrs, "from")

\* C7: for a valid schema exactly one wrapping constructor is emitted for
\* each variant whose field is marked conversion-source and none for another
\* variant; the constructor applied to v gives that variant holding v, which
\* converts to a body whose single value is the string form of v.
C7_WrappingConstructors ==
    /\ Succeeded =>
          LET out == result.v.v IN
          /\ \A i \in 1..N :
                LET variant == input.variants[i] IN
                Cardinality({j \in 1..Len(out.impls) : out.impls[j].ident = variant.ident})
                    = IF C7_Marked(variant) THEN 1 ELSE 0
          /\ \A j \in 1..Len(out.impls) :
                /\ \E i \in 1..N : input.variants[i].ident = out.impls[j].ident
                /\ out.impls[j].ty = VariantNamed(out.impls[j].ident).fields[1].ty
    /\ (value.some /\ value.v.via = "from") =>
          /\ C7_Marked(VariantNamed(value.v.variant))
          /\ value.v.x = value.v.arg
          /\ value.v.arg.ty = VariantNamed(value.v.variant).fields[1].ty
    /\ (response.some /\ value.v.via = "from") =>
          LET field == VariantNamed(value.v.variant).fields[1]
              k == IF Annotated(field.attrs, "key")
                   THEN LastNamed(field.attrs, "key").tokens[1].v ELSE "error"
          IN response.v.rule.body = Some(Object(k, Text(to_string(value.v.arg))))

C7_Witness ==
    /\ response.some
    /\ value.v.via = "from"
    /\ value.v.arg = String("boom")
    /\ response.v.status = 500
    /\ response.v.body = "{\"awwa\":\"boom\"}"

\* The first variant the closure rejects.
C8_FirstInvalid ==
    CHOOSE i \in 1..N :
        /\ ~variant_closure(input.variants[i]).ok
        /\ EarlierValid(i)

\* C8: the pipeline is fail-fast in declaration order: with an invalid
\* variant the result is the one error of the earliest invalid variant, and
\* no variant rule and no wrapping constructor is emitted; nothing is emitted
\* before the last variant has been accepted.
C8_FailFast ==
    /\ (Done /\ \E i \in 1..N : ~variant_closure(input.variants[i]).ok) =>
          /\ result = Some(Err(variant_closure(input.variants[C8_FirstInvalid]).err))
          /\ match_branches = <<>>
          /\ impls = <<>>
          /\ ~value.some
          /\ ~response.some
    /\ ~Done =>
          /\ result = None
          /\ \A j \in 1..(idx - 1) : variant_closure(input.variants[j]).ok

C8_Witness ==
    /\ Failed
    /\ N = 2
    /\ ~variant_closure(input.variants[1]).ok
    /\ ~variant_closure(input.variants[2]).ok
    /\ variant_closure(input.variants[1]).err.kind = "MissingStatusCode"
    /\ variant_closure(input.variants[2]).err.kind = "FieldCardinalityError"
    /\ result.v.err.span = "V1"

\* A status-code annotation that names no constant of StatusCode.
C9_Unknown(variant) ==
    \E a \in 1..Len(variant.attrs) :
        /\ Named(variant.attrs[a], "status_code")
        /\ variant.attrs[a].meta = "List"
        /\ ~Resolves(variant.attrs[a].tokens)

\* C9 as stated: a status-code annotation naming a symbol outside the table
\* makes the pipeline fail, and no emitted rule holds an unresolved symbol.
C9_UnknownStatusFails ==
    Done =>
        /\ \A i \in 1..N : C9_Unknown(input.variants[i]) => ~result.v.ok
        /\ result.v.ok =>
              \A j \in 1..Len(result.v.v.match_branches) :
                  Resolves(result.v.v.match_branches[j].status_code)

\* The input with the tokens of every status-code annotation replaced.
C9_Renamed(name) ==
    [input EXCEPT !.variants =
        [i \in 1..N |->
            [input.variants[i] EXCEPT !.attrs =
                [a \in 1..Len(input.variants[i].attrs) |->
                    IF /\ Named(input.variants[i].attrs[a], "status_code")
                       /\ input.variants[i].attrs[a].meta = "List"
                    THEN [input.variants[i].attrs[a] EXCEPT !.tokens = <<Ident(name)>>]
                    ELSE input.variants[i].attrs[a]]]]]

\* C9 amended: the pipeline does not resolve status-code symbols; it copies
\* the annotation's tokens into the variant's rule as they are, and whether
\* the pipeline fails, and with what error, does not depend on the symbols.
C9_StatusVerbatim ==
    (Done /\ input.is_enum) =>
        LET r == impl_enum_into_response(C9_Renamed("OK")) IN
        /\ result.v.ok = r.ok
        /\ ~result.v.ok => result.v.err = r.err
        /\ result.v.ok =>
              \A i \in 1..N :
                  ArmNamed(result.v.v, input.variants[i].ident).status_code
                      = DeclaredStatus(input.variants[i])

C9_Witness ==
    /\ Succeeded
    /\ N = 2
    /\ C9_Unknown(input.variants[2])
    /\ result.v.v.match_branches[2].status_code = <<Ident("NOT_A_STATUS")>>

\* The grammar of the payload of each recognized annotation.
C10_WellFormed(attribute) ==
    CASE Named(attribute, "status_code") ->
            attribute.meta = "List" /\ Len(attribute.tokens) = 1
                /\ attribute.tokens[1].k = "ident"
      [] Named(attribute, "body") ->
            /\ attribute.meta = "List"
            /\ \/ Len(attribute.tokens) = 1 /\ attribute.tokens[1].k = "str"
               \/ /\ Len(attribute.tokens) = 3
                  /\ attribute.tokens[1].k = "str"
                  /\ attribute.tokens[2] = Arrow
                  /\ attribute.tokens[3].k = "str"
      [] Named(attribute, "key") ->
            attribute.meta = "List" /\ Len(attribute.tokens) = 1
                /\ attribute.tokens[1].k = "str"
      [] Named(attribute, "message") ->
            attribute.meta = "List" /\ Len(attribute.tokens) = 1
                /\ attribute.tokens[1].k = "str"
      [] Named(attribute, "from") -> attribute.meta = "Path"
      [] OTHER -> TRUE

C10_Recognized == {"status_code", "body", "key", "from", "message"}

C10_Unrecognized(attribute) ==
    Len(attribute.path) = 1 /\ attribute.path[1] \notin C10_Recognized

C10_Strip(attributes) == SelectSeq(attributes, LAMBDA a : ~C10_Unrecognized(a))

\* The input without its annotations of unrecognized names.
C10_Stripped ==
    [input EXCEPT !.variants =
        [i \in 1..N |->
            [input.variants[i] EXCEPT
                !.attrs = C10_Strip(@),
                !.fields = [f \in 1..Len(@) |-> [@[f] EXCEPT !.attrs = C10_Strip(@)]]]]]

C10_AllNamed(attributes) == \A a \in 1..Len(attributes) : Len(attributes[a].path) = 1

\* C10: an annotation of an unrecognized name changes nothing, and a
\* recognized annotation whose payload does not match its grammar makes the
\* pipeline fail with InvalidAttributeGrammar. It is stated for the earliest
\* invalid variant, with at most one positional field and all its annotations
\* named, so that no other error comes first, and for variants without a
\* message annotation, which C3 is about.
C10_RelaxedNamesStrictGrammar ==
    (Done /\ input.is_enum) =>
        /\ LET r == impl_enum_into_response(C10_Stripped) IN
           /\ result.v.ok = r.ok
           /\ result.v.ok => result.v.v = r.v
           /\ ~result.v.ok =>
                 result.v.err.kind = r.err.kind /\ result.v.err.span = r.err.span
        /\ \A i \in 1..N :
              LET variant == input.variants[i] IN
              ( /\ EarlierValid(i)
                /\ ~C5_BadFields(variant)
                /\ ~Annotated(variant.attrs, "message")
                /\ C10_AllNamed(variant.attrs)
                /\ \A f \in 1..Len(variant.fields) : C10_AllNamed(variant.fields[f].attrs)
                /\ \/ \E a \in 1..Len(variant.attrs) : ~C10_WellFormed(variant.attrs[a])
                   \/ \E f \in 1..Len(variant.fields) :
                         \E a \in 1..Len(variant.fields[f].attrs) :
                             ~C10_WellFormed(variant.fields[f].attrs[a]) ) =>
                  /\ ~result.v.ok
                  /\ result.v.err.kind = "InvalidAttributeGrammar"

====
